---- MODULE Spec2Model ----
(***************************************************************************)
(* rdiffdb: orchestration of remote pg_dump, rdiff-backup transfer,        *)
(* restore-as-of-now and container rehydration (src/rdiffdb).              *)
(*                                                                         *)
(* A run is one CLI invocation (main.py) in its own process: it looks its  *)
(* --host up in settings.hosts / settings.containersettings and drives the *)
(* methods of fabfile.Config and fabfile.PgContainerSettings.  Every call  *)
(* a run makes to a collaborator (fabric, rdiff-backup, docker, the local  *)
(* file system, time.sleep) is appended to calls[r] and acts on the        *)
(* modelled disks and containers.                                          *)
(***************************************************************************)
EXTENDS Naturals, Sequences, FiniteSets, TLC

VARIABLES
    command,     \* run -> the CLI command it was started with
    hostArg,     \* run -> its --host argument
    pc,          \* run -> position in the command's code
    idx,         \* run -> position in the command list being executed
    cmds,        \* run -> the list Config.backup_db built (backup-db)
    cached,      \* run -> "paths" is in the Config instance's __dict__
    paths,       \* run -> the cached Paths tuple
    calls,       \* run -> the collaborator calls issued so far, in order
    err,         \* run -> the exception that ended the run, "" if none
    printed,     \* run -> what the run printed (restore's failing output)
    archive,     \* run -> the tar stream copy_to_container built
    ops,         \* run -> the commands the process has gone through
    today,       \* date.today(), as a day index
    home,        \* Path.home()
    localfs,     \* local disk: existing path -> data
    remote,      \* dumps on the remote hosts: set of [loc, db]
    container,   \* docker: container name -> [status, source]
    computed,    \* the Paths tuples computed so far (SpecPaths)
    gen          \* a _restore_cmds generator being drained (SpecRestoreCmds)

vars == <<command, hostArg, pc, idx, cmds, cached, paths, calls, err, printed,
          archive, ops, today, home, localfs, remote, container, computed, gen>>

(***************************************************************************)
(* Bounds                                                                  *)
(***************************************************************************)
\* length of the random token (range(10) in the code, shortened)
RandLen == 1
\* date.today() moves over days 0..MaxDay
MaxDay == 1
\* number of Paths computations SpecPaths records
MaxComputed == 2

\* the CLI processes
Runs == {1, 2}
\* string.ascii_lowercase, cut to two letters
Letters == {"a", "b"}

(***************************************************************************)
(* pathlib.Path: a sequence of components                                  *)
(***************************************************************************)
Join(p, q) == p \o q

Parent(p) == IF Len(p) = 0 THEN p ELSE SubSeq(p, 1, Len(p) - 1)

\* p is q or lies below q
IsUnder(p, q) == Len(q) <= Len(p) /\ SubSeq(p, 1, Len(q)) = q

Loc(on, path) == [on |-> on, path |-> path]
NoLoc == Loc("", <<>>)
Local == "local"

(***************************************************************************)
(* settings.py                                                             *)
(***************************************************************************)
Config(user, host, database) ==
    [user |-> user, host |-> host, database |-> database]

hosts ==
    [n \in {"dird", "partisipa", "partisipa_metabase"} |->
        CASE n = "dird" ->
                Config("dird", "dird-staging.catalpa.build", "dird_db")
          [] n = "partisipa" ->
                Config("partisipa", "partisipa-staging.catalpa.build",
                       "partisipa_db")
          [] n = "partisipa_metabase" ->
                Config("partisipa", "partisipa-staging.catalpa.build",
                       "partisipa_metabase_db")]

PgContainerSettings(container_name, user, database, pg_port) ==
    [image_name |-> "postgis/postgis:latest", container_name |-> container_name,
     password |-> "post1234", pg_port |-> pg_port, database |-> database,
     user |-> user, host |-> "localhost"]

containersettings ==
    [n \in {"partisipa", "partisipa_metabase"} |->
        CASE n = "partisipa" ->
                PgContainerSettings("partisipa_db", "partisipa",
                                    "partisipa_db", 49158)
          [] n = "partisipa_metabase" ->
                PgContainerSettings("partisipa_metabase_db",
                                    "partisipa_metabase",
                                    "partisipa_metabase_db", 49159)]

\* dict.get(name) is None
IsNone(registry, name) == name \notin DOMAIN registry

\* the values --host is given: the registered names, a name in neither
\* registry, and the empty string
HostArgs == DOMAIN hosts \cup {"nohost", ""}

(***************************************************************************)
(* Config.paths                                                            *)
(***************************************************************************)
Digit == <<"0", "1", "2", "3", "4", "5", "6", "7", "8", "9">>
Pad2(n) == Digit[(n \div 10) + 1] \o Digit[(n % 10) + 1]

\* date.today() for day index d: 2024-12-31, 2025-01-01, 2025-01-02, ...
DateOf(d) ==
    IF d = 0 THEN [year |-> "2024", month |-> 12, day |-> 31]
             ELSE [year |-> "2025", month |-> 1, day |-> d]

\* date.isoformat()
IsoFormat(dt) == dt.year \o "-" \o Pad2(dt.month) \o "-" \o Pad2(dt.day)

\* "".join(random.choice(letters) for i in range(RandLen)): every outcome
RECURSIVE RandTokens(_)
RandTokens(n) ==
    IF n = 0 THEN {""}
    ELSE {t \o l : t \in RandTokens(n - 1), l \in Letters}

Rands == RandTokens(RandLen)

TempNameNoDate(day, rand) == rand

TempName(day, rand) == IsoFormat(DateOf(day)) \o "_" \o rand

ComputePaths(cfg, hm, day, rand) ==
    [backup |-> <<"pg_dump_out">>,
     local_backup |-> Join(<<"tmp">>, <<"pg_dump_out">>),
     destination |-> Join(hm, <<"databases", cfg.host, cfg.database>>),
     temp |-> Join(Join(<<"tmp">>, <<"pg_dump_out">>), <<TempName(day, rand)>>)]

NoPaths == [backup |-> <<>>, local_backup |-> <<>>, destination |-> <<>>,
            temp |-> <<>>]

Recomputed(isCached, cache, fresh) == fresh

\* functools.cached_property: the value in __dict__ once it is there
CachedProperty(isCached, cache, fresh) == IF isCached THEN cache ELSE fresh

\* self.paths read by run r, random.choice drawing rand
PathsOf(r, rand) ==
    CachedProperty(cached[r], paths[r],
                   ComputePaths(hosts[hostArg[r]], home, today, rand))

(***************************************************************************)
(* Shell commands and collaborator calls                                   *)
(***************************************************************************)
\* a command line: the program, the user it names, the database it connects
\* to, its statement or options, the object of the statement, its path
Cmd(prog, user, db, stmt, obj, path) ==
    [prog |-> prog, user |-> user, db |-> db, stmt |-> stmt, obj |-> obj,
     path |-> path]
NoCmd == Cmd("", "", "", "", "", <<>>)

\* one call to a collaborator: svc.op, the command it carries, the places
\* it reads (src) and writes (dst), and whether it returned success (ok) or
\* raised / exited non-zero
Call(svc, op, cmd, src, dst) ==
    [svc |-> svc, op |-> op, cmd |-> cmd, src |-> src, dst |-> dst, ok |-> TRUE]

Ret(call, ok) == [call EXCEPT !.ok = ok]

(***************************************************************************)
(* Config.backup_db                                                        *)
(***************************************************************************)
BackupDbCmdsChownFirst(cfg, p) ==
    << Cmd("chown", cfg.user, "", "", cfg.user,
           Join(<<"tmp">>, p.backup)),
       Cmd("mkdir -p", "", "", "", "", Join(<<"tmp">>, p.backup)),
       Cmd("su pg_dump", cfg.user, cfg.database,
           "--format=directory --compress=0", "", p.temp) >>

BackupDbCmds(cfg, p) ==
    << Cmd("mkdir -p", "", "", "", "", Join(<<"tmp">>, p.backup)),
       Cmd("chown", cfg.user, "", "", cfg.user,
           Join(<<"tmp">>, p.backup)),
       Cmd("su pg_dump", cfg.user, cfg.database,
           "--format=directory --compress=0", "", p.temp) >>

(***************************************************************************)
(* PgContainerSettings._restore_cmds                                       *)
(***************************************************************************)
Psql(user, db, stmt, obj) == Cmd("psql", user, db, stmt, obj, <<>>)

PartisipaRoleCmds(s) ==
    << Psql(s.user, s.database, "DROP ROLE IF EXISTS", "metabase_group"),
       Psql(s.user, s.database, "DROP ROLE IF EXISTS", "metabase"),
       Psql(s.user, s.database, "DROP ROLE IF EXISTS", "partisipa"),
       Psql(s.user, s.database, "DROP ROLE IF EXISTS", "iampartisipa"),
       Psql(s.user, s.database, "CREATE ROLE", "metabase_group"),
       Psql(s.user, s.database, "CREATE ROLE", "metabase"),
       Psql(s.user, s.database, "CREATE ROLE", "iampartisipa"),
       Psql(s.user, s.database, "CREATE ROLE", "partisipa") >>

RestoreCmdsAlwaysRoles(s) ==
    << Psql(s.user, "postgres", "DROP DATABASE", s.database),
       Psql(s.user, "postgres", "CREATE DATABASE", s.database) >>
    \o PartisipaRoleCmds(s)
    \o << Cmd("pg_restore", s.user, s.database, "", "",
              <<"source", "pg_dump_out">>) >>

\* the commands the generator yields, in order
RestoreCmds(s) ==
    << Psql(s.user, "postgres", "DROP DATABASE", s.database),
       Psql(s.user, "postgres", "CREATE DATABASE", s.database) >>
    \o (IF s.database = "partisipa_db" THEN PartisipaRoleCmds(s) ELSE <<>>)
    \o << Cmd("pg_restore", s.user, s.database, "", "",
              <<"source", "pg_dump_out">>) >>

(***************************************************************************)
(* The local disk, the remote dumps, the containers                        *)
(***************************************************************************)
\* what a dump or a snapshot holds: the database dumped and where the dump
\* was written
Snap(db, from) == [db |-> db, from |-> from]

\* shutil.rmtree(p, ignore_errors=True)
RmTree(fs, p) == [q \in {x \in DOMAIN fs : ~IsUnder(x, p)} |-> fs[q]]

Prefixes(p) == {SubSeq(p, 1, n) : n \in 1..Len(p)}

\* os.makedirs(p, exist_ok=True)
MakeDirs(fs, p) ==
    [q \in DOMAIN fs \cup Prefixes(p) |->
        IF q \in DOMAIN fs THEN fs[q] ELSE <<>>]

\* the dump at a remote place, <<>> when there is none
DumpAt(loc) ==
    IF \E d \in remote : d.loc = loc
    THEN <<(CHOOSE d \in remote : d.loc = loc).snap>>
    ELSE <<>>

\* pg_dump --file=loc: the dump directory now holds this database
WriteDump(rem, loc, db) ==
    {d \in rem : d.loc # loc} \cup {[loc |-> loc, snap |-> Snap(db, loc)]}

\* rdiff-backup backup: one more increment in the repository at dest
AddIncrement(fs, dest, snaps) ==
    [q \in DOMAIN fs \cup {dest} |->
        IF q = dest
        THEN (IF dest \in DOMAIN fs THEN fs[dest] ELSE <<>>) \o snaps
        ELSE fs[q]]

\* rdiff-backup --restore-as-of=now: the newest increment, written to target
RestoreNewest(fs, dest, target) ==
    [q \in DOMAIN fs \cup {target} |->
        IF q = target THEN <<fs[dest][Len(fs[dest])]>> ELSE fs[q]]

HasIncrement(fs, dest) == dest \in DOMAIN fs /\ Len(fs[dest]) > 0

NoContainer == [status |-> "absent", source |-> <<>>]

(***************************************************************************)
(* What a collaborator's failure does to the caller                        *)
(***************************************************************************)
RunWarns(ok) == FALSE

\* fabric Connection.run (warn=False): a non-zero exit raises UnexpectedExit
RunRaises(ok) == ~ok

RestoreIgnoresExit(exitcode) == FALSE

\* restore(): "if exitcode != 0: print(output); break"
RestoreBreaks(exitcode) == exitcode # 0

TaskDescriptionPlain(name) == FALSE

\* build_container's task description reads containerconfig.container_name:
\* AttributeError when containersettings.get(host) is None
TaskDescriptionRaises(name) == IsNone(containersettings, name)

AfterCopyNoSleep == "bc_rget"

\* build_container: time.sleep(5) follows copy_to_container
AfterCopy == "bc_sleep"

StagingInPlace(p) == p.destination

\* restore_as_of_now: "backup = self.paths.local_backup"
StagingPath(p) == p.local_backup

Cfg(r) == hosts[hostArg[r]]
CCfg(r) == containersettings[hostArg[r]]

Said(what, cmd) == [what |-> what, cmd |-> cmd]

(***************************************************************************)
(* main.py: list-hosts                                                     *)
(***************************************************************************)
ListHosts(r) ==
    /\ pc[r] = "start" /\ command[r] = "list-hosts"
    /\ printed' = [printed EXCEPT ![r] = Append(@, Said("hosts.keys", NoCmd))]
    /\ pc' = [pc EXCEPT ![r] = "done"]
    /\ UNCHANGED <<ops, command, hostArg, idx, cmds, cached, paths, calls, err,
                   archive, today, home, localfs, remote, container,
                   computed, gen>>

(***************************************************************************)
(* main.py: backup-db, with Config.run_backup_db and Config.rdiff_backup   *)
(***************************************************************************)
\* h = hosts.get(host); if not host: raise KeyError; h.run_backup_db()
BackupDbLookup(r) ==
    /\ pc[r] = "start" /\ command[r] = "backup-db"
    /\ \/ /\ hostArg[r] = ""
          /\ err' = [err EXCEPT ![r] = "KeyError"]
          /\ pc' = [pc EXCEPT ![r] = "failed"]
       \/ /\ hostArg[r] # "" /\ IsNone(hosts, hostArg[r])
          /\ err' = [err EXCEPT ![r] = "AttributeError"]
          /\ pc' = [pc EXCEPT ![r] = "failed"]
       \/ /\ hostArg[r] # "" /\ ~IsNone(hosts, hostArg[r])
          /\ err' = err
          /\ pc' = [pc EXCEPT ![r] = "bk_cmds"]
    /\ UNCHANGED <<ops, command, hostArg, idx, cmds, cached, paths, calls, printed,
                   archive, today, home, localfs, remote, container,
                   computed, gen>>

\* the first next() of run_backup_db: Config.backup_db reads self.paths.temp
\* and builds its three commands
BackupDbCommands(r) ==
    /\ pc[r] = "bk_cmds"
    /\ \E rand \in Rands :
          LET p == PathsOf(r, rand) IN
          /\ paths' = [paths EXCEPT ![r] = p]
          /\ cached' = [cached EXCEPT ![r] = TRUE]
          /\ cmds' = [cmds EXCEPT ![r] = BackupDbCmds(Cfg(r), p)]
    /\ idx' = [idx EXCEPT ![r] = 1]
    /\ pc' = [pc EXCEPT ![r] = "bk_run"]
    /\ UNCHANGED <<ops, command, hostArg, calls, err, printed, archive, today, home,
                   localfs, remote, container, computed, gen>>

\* one turn of the loop: result = c.run(command)
RunRemote(r) ==
    /\ pc[r] = "bk_run"
    /\ LET c == cmds[r][idx[r]]
           at == Loc(Cfg(r).host, c.path) IN
       /\ \E ok \in BOOLEAN :
             /\ calls' = [calls EXCEPT ![r] =
                   Append(@, Ret(Call("ssh", "run", c, NoLoc, at), ok))]
             /\ remote' = IF ok /\ c.prog = "su pg_dump"
                          THEN WriteDump(remote, at, c.db) ELSE remote
             /\ IF RunRaises(ok)
                THEN /\ err' = [err EXCEPT ![r] = "UnexpectedExit"]
                     /\ pc' = [pc EXCEPT ![r] = "failed"]
                     /\ idx' = idx
                ELSE /\ err' = err
                     /\ idx' = [idx EXCEPT ![r] = @ + 1]
                     /\ pc' = [pc EXCEPT ![r] =
                                  IF idx[r] = Len(cmds[r]) THEN "bk_rdiff"
                                                           ELSE "bk_run"]
    /\ UNCHANGED <<ops, command, hostArg, cmds, cached, paths, printed, archive,
                   today, home, localfs, container, computed, gen>>

\* h.rdiff_backup(): the command from self.paths, os.makedirs(destination),
\* rdiffbackup.run.main_run(cmd); main_run's return code is not looked at
RdiffBackup(r) ==
    /\ pc[r] = "bk_rdiff"
    /\ \E rand \in Rands, outcome \in {"ok", "retcode", "raise", "oserror"} :
          LET p == PathsOf(r, rand)
              src == Loc(Cfg(r).host, p.temp)
              dst == Loc(Local, p.destination)
              mk == Ret(Call("os", "makedirs", NoCmd, NoLoc, dst),
                        outcome # "oserror")
              run == Ret(Call("rdiff", "backup", NoCmd, src, dst),
                         outcome = "ok")
              made == MakeDirs(localfs, p.destination) IN
          /\ paths' = [paths EXCEPT ![r] = p]
          /\ cached' = [cached EXCEPT ![r] = TRUE]
          /\ outcome = "ok" => DumpAt(src) # <<>>
          /\ calls' = [calls EXCEPT ![r] =
                IF outcome = "oserror" THEN Append(@, mk) ELSE @ \o <<mk, run>>]
          /\ localfs' = CASE outcome = "oserror" -> localfs
                          [] outcome = "ok" ->
                                AddIncrement(made, p.destination, DumpAt(src))
                          [] OTHER -> made
          /\ err' = [err EXCEPT ![r] =
                CASE outcome = "oserror" -> "OSError"
                  [] outcome = "raise" -> "SystemExit"
                  [] OTHER -> @]
          /\ pc' = [pc EXCEPT ![r] =
                IF outcome \in {"ok", "retcode"} THEN "done" ELSE "failed"]
    /\ UNCHANGED <<ops, command, hostArg, idx, cmds, printed, archive, today, home,
                   remote, container, computed, gen>>

(***************************************************************************)
(* main.py: list-backups, with Config.list_backups                         *)
(***************************************************************************)
ListBackups(r) ==
    /\ pc[r] = "start" /\ command[r] = "list-backups"
    /\ \/ /\ IsNone(hosts, hostArg[r])
          /\ err' = [err EXCEPT ![r] = "AttributeError"]
          /\ pc' = [pc EXCEPT ![r] = "failed"]
          /\ UNCHANGED <<paths, cached, calls>>
       \/ /\ ~IsNone(hosts, hostArg[r])
          /\ \E rand \in Rands, outcome \in {"ok", "retcode", "raise"} :
                LET p == PathsOf(r, rand) IN
                /\ paths' = [paths EXCEPT ![r] = p]
                /\ cached' = [cached EXCEPT ![r] = TRUE]
                /\ calls' = [calls EXCEPT ![r] =
                      Append(@, Ret(Call("rdiff", "list", NoCmd,
                                         Loc(Local, p.destination), NoLoc),
                                    outcome = "ok"))]
                /\ err' = [err EXCEPT ![r] =
                      IF outcome = "raise" THEN "SystemExit" ELSE @]
                /\ pc' = [pc EXCEPT ![r] =
                      IF outcome = "raise" THEN "failed" ELSE "done"]
    /\ UNCHANGED <<ops, command, hostArg, idx, cmds, printed, archive, today, home,
                   localfs, remote, container, computed, gen>>

(***************************************************************************)
(* main.py: build-container, with Config.restore_as_of_now,                *)
(* PgContainerSettings.copy_to_container and PgContainerSettings.restore   *)
(***************************************************************************)
\* lines 47-58: both lookups, then the three task descriptions, which read
\* config.paths and containerconfig.container_name
BuildContainerLookup(r) ==
    /\ pc[r] = "start" /\ command[r] = "build-container"
    /\ \/ /\ IsNone(hosts, hostArg[r])
          /\ err' = [err EXCEPT ![r] = "AttributeError"]
          /\ pc' = [pc EXCEPT ![r] = "failed"]
          /\ UNCHANGED <<paths, cached>>
       \/ /\ ~IsNone(hosts, hostArg[r])
          /\ \E rand \in Rands :
                /\ paths' = [paths EXCEPT ![r] = PathsOf(r, rand)]
                /\ cached' = [cached EXCEPT ![r] = TRUE]
          /\ IF TaskDescriptionRaises(hostArg[r])
             THEN /\ err' = [err EXCEPT ![r] = "AttributeError"]
                  /\ pc' = [pc EXCEPT ![r] = "failed"]
             ELSE /\ err' = err
                  /\ pc' = [pc EXCEPT ![r] = "bc_restore"]
    /\ UNCHANGED <<ops, command, hostArg, idx, cmds, calls, printed, archive, today,
                   home, localfs, remote, container, computed, gen>>

\* config.restore_as_of_now(): rmtree(backup), makedirs(backup.parent),
\* main_run(restore); main_run's return code is not looked at.  The parent
\* is /tmp, which is there, so makedirs(exist_ok=True) has nothing to do
RestoreAsOfNow(r) ==
    /\ pc[r] = "bc_restore"
    /\ \E rand \in Rands, outcome \in {"ok", "retcode", "raise"} :
          LET p == PathsOf(r, rand)
              backup == StagingPath(p)
              rm == Call("shutil", "rmtree", NoCmd, NoLoc, Loc(Local, backup))
              mk == Call("os", "makedirs", NoCmd, NoLoc,
                         Loc(Local, Parent(backup)))
              run == Ret(Call("rdiff", "restore", NoCmd,
                              Loc(Local, p.destination), Loc(Local, backup)),
                         outcome = "ok")
              cleared == RmTree(localfs, backup)
              made == MakeDirs(cleared, Parent(backup)) IN
          /\ paths' = [paths EXCEPT ![r] = p]
          /\ cached' = [cached EXCEPT ![r] = TRUE]
          /\ outcome = "ok" => HasIncrement(made, p.destination)
          /\ calls' = [calls EXCEPT ![r] = @ \o <<rm, mk, run>>]
          /\ localfs' = IF outcome = "ok"
                        THEN RestoreNewest(made, p.destination, backup)
                        ELSE made
          /\ err' = [err EXCEPT ![r] =
                IF outcome = "raise" THEN "SystemExit" ELSE @]
          /\ pc' = [pc EXCEPT ![r] =
                IF outcome \in {"ok", "retcode"} THEN "bc_get" ELSE "failed"]
    /\ UNCHANGED <<ops, command, hostArg, idx, cmds, printed, archive, today, home,
                   remote, container, computed, gen>>

\* get_container(), called first by copy_to_container and again by restore:
\* containers.get(name), and containers.create(...) when it is not found
GetContainer(r) ==
    /\ pc[r] \in {"bc_get", "bc_rget"}
    /\ IF IsNone(containersettings, hostArg[r])
       THEN /\ err' = [err EXCEPT ![r] = "AttributeError"]
            /\ pc' = [pc EXCEPT ![r] = "failed"]
            /\ UNCHANGED <<calls, container, idx>>
       ELSE LET name == CCfg(r).container_name
                get == Call("docker", "get", NoCmd, Loc(name, <<>>), NoLoc)
                create == Call("docker", "create", NoCmd, NoLoc,
                               Loc(name, <<>>))
                next == IF pc[r] = "bc_get" THEN "bc_start" ELSE "bc_exec" IN
            \/ /\ container[name].status # "absent"
               /\ calls' = [calls EXCEPT ![r] = Append(@, get)]
               /\ pc' = [pc EXCEPT ![r] = next]
               /\ idx' = [idx EXCEPT ![r] = 1]
               /\ UNCHANGED <<container, err>>
            \/ /\ container[name].status = "absent"
               /\ \E ok \in BOOLEAN :
                     /\ calls' = [calls EXCEPT ![r] =
                           @ \o <<Ret(get, FALSE), Ret(create, ok)>>]
                     /\ IF ok
                        THEN /\ container' = [container EXCEPT
                                                 ![name].status = "created"]
                             /\ pc' = [pc EXCEPT ![r] = next]
                             /\ idx' = [idx EXCEPT ![r] = 1]
                             /\ err' = err
                        ELSE /\ err' = [err EXCEPT ![r] = "ImageNotFound"]
                             /\ pc' = [pc EXCEPT ![r] = "failed"]
                             /\ UNCHANGED <<container, idx>>
    /\ UNCHANGED <<ops, command, hostArg, cmds, cached, paths, printed, archive,
                   today, home, localfs, remote, computed, gen>>

\* copy_to_container: container.start()
ContainerStart(r) ==
    /\ pc[r] = "bc_start"
    /\ LET name == CCfg(r).container_name IN
       \E ok \in BOOLEAN :
          /\ calls' = [calls EXCEPT ![r] =
                Append(@, Ret(Call("docker", "start", NoCmd, NoLoc,
                                   Loc(name, <<>>)), ok))]
          /\ IF ok
             THEN /\ container' = [container EXCEPT ![name].status = "running"]
                  /\ pc' = [pc EXCEPT ![r] = "bc_tar"]
                  /\ err' = err
             ELSE /\ err' = [err EXCEPT ![r] = "APIError"]
                  /\ pc' = [pc EXCEPT ![r] = "failed"]
                  /\ container' = container
    /\ UNCHANGED <<ops, command, hostArg, idx, cmds, cached, paths, printed, archive,
                   today, home, localfs, remote, computed, gen>>

\* copy_to_container: tar.add(source_dir, arcname=arcname)
TarAdd(r) ==
    /\ pc[r] = "bc_tar"
    /\ LET src == paths[r].local_backup IN
       /\ calls' = [calls EXCEPT ![r] =
             Append(@, Ret(Call("tarfile", "add", NoCmd, Loc(Local, src),
                                NoLoc), src \in DOMAIN localfs))]
       /\ IF src \in DOMAIN localfs
          THEN /\ archive' = [archive EXCEPT ![r] = localfs[src]]
               /\ pc' = [pc EXCEPT ![r] = "bc_mkdir"]
               /\ err' = err
          ELSE /\ err' = [err EXCEPT ![r] = "FileNotFoundError"]
               /\ pc' = [pc EXCEPT ![r] = "failed"]
               /\ archive' = archive
    /\ UNCHANGED <<ops, command, hostArg, idx, cmds, cached, paths, printed, today,
                   home, localfs, remote, container, computed, gen>>

\* copy_to_container: container.exec_run("mkdir -p /source"), its exit code
\* not looked at
ExecMkdir(r) ==
    /\ pc[r] = "bc_mkdir"
    /\ LET name == CCfg(r).container_name
           c == Cmd("mkdir -p", "", "", "", "", <<"source">>) IN
       \E outcome \in {"exit0", "exit1", "raise"} :
             /\ calls' = [calls EXCEPT ![r] =
                   Append(@, Ret(Call("docker", "exec_run", c, NoLoc,
                                      Loc(name, c.path)), outcome = "exit0"))]
             /\ err' = [err EXCEPT ![r] =
                   IF outcome = "raise" THEN "APIError" ELSE @]
             /\ pc' = [pc EXCEPT ![r] =
                   IF outcome = "raise" THEN "failed" ELSE "bc_put"]
    /\ UNCHANGED <<ops, command, hostArg, idx, cmds, cached, paths, printed, archive,
                   today, home, localfs, remote, container, computed, gen>>

\* copy_to_container: print(...); container.put_archive(dst_dir, stream)
PutArchive(r) ==
    /\ pc[r] = "bc_put"
    /\ LET name == CCfg(r).container_name IN
       /\ printed' = [printed EXCEPT ![r] =
             Append(@, Said("Putting archive", NoCmd))]
       /\ \E outcome \in {"ok", "false", "raise"} :
             /\ calls' = [calls EXCEPT ![r] =
                   Append(@, Ret(Call("docker", "put_archive", NoCmd, NoLoc,
                                      Loc(name, <<"source">>)),
                                 outcome = "ok"))]
             /\ container' = IF outcome = "ok"
                   THEN [container EXCEPT ![name].source = archive[r]]
                   ELSE container
             /\ err' = [err EXCEPT ![r] =
                   IF outcome = "raise" THEN "APIError" ELSE @]
             /\ pc' = [pc EXCEPT ![r] =
                   IF outcome = "raise" THEN "failed" ELSE AfterCopy]
    /\ UNCHANGED <<ops, command, hostArg, idx, cmds, cached, paths, archive, today,
                   home, localfs, remote, computed, gen>>

\* time.sleep(5)
Sleep(r) ==
    /\ pc[r] = "bc_sleep"
    /\ calls' = [calls EXCEPT ![r] =
          Append(@, Call("time", "sleep", NoCmd, NoLoc, NoLoc))]
    /\ pc' = [pc EXCEPT ![r] = "bc_rget"]
    /\ UNCHANGED <<ops, command, hostArg, idx, cmds, cached, paths, err, printed,
                   archive, today, home, localfs, remote, container,
                   computed, gen>>

\* one turn of restore()'s loop over _restore_cmds()
RestoreExec(r) ==
    /\ pc[r] = "bc_exec"
    /\ LET name == CCfg(r).container_name
           c == RestoreCmds(CCfg(r))[idx[r]] IN
       \E exitcode \in {0, 1} :
          /\ calls' = [calls EXCEPT ![r] =
                Append(@, Ret(Call("docker", "exec_run", c, NoLoc,
                                   Loc(name, c.path)), exitcode = 0))]
          /\ IF RestoreBreaks(exitcode)
             THEN /\ printed' = [printed EXCEPT ![r] =
                        Append(@, Said("output", c))]
                  /\ pc' = [pc EXCEPT ![r] = "done"]
                  /\ idx' = idx
             ELSE /\ printed' = printed
                  /\ idx' = [idx EXCEPT ![r] = @ + 1]
                  /\ pc' = [pc EXCEPT ![r] =
                        IF idx[r] = Len(RestoreCmds(CCfg(r))) THEN "done"
                                                              ELSE "bc_exec"]
    /\ UNCHANGED <<ops, command, hostArg, cmds, cached, paths, err, archive, today,
                   home, localfs, remote, container, computed, gen>>

\* midnight passes
NextDay ==
    /\ today < MaxDay
    /\ today' = today + 1
    /\ UNCHANGED <<ops, command, hostArg, pc, idx, cmds, cached, paths, calls, err,
                   printed, archive, home, localfs, remote, container,
                   computed, gen>>

(***************************************************************************)
(* Config.paths computed on fresh Config instances, one after the other    *)
(***************************************************************************)
PathsComputation ==
    /\ Len(computed) < MaxComputed
    /\ \E n \in DOMAIN hosts, rand \in Rands :
          computed' = Append(computed,
              [name |-> n, day |-> today, rand |-> rand,
               paths |-> ComputePaths(hosts[n], home, today, rand)])
    /\ UNCHANGED <<ops, command, hostArg, pc, idx, cmds, cached, paths, calls, err,
                   printed, archive, today, home, localfs, remote, container,
                   gen>>

(***************************************************************************)
(* A _restore_cmds() generator drained by next()                           *)
(***************************************************************************)
GenNext ==
    /\ gen.pos < Len(RestoreCmds(gen.settings))
    /\ gen' = [gen EXCEPT
          !.pos = @ + 1,
          !.out = Append(@, RestoreCmds(gen.settings)[gen.pos + 1]),
          !.done = (gen.pos + 1 = Len(RestoreCmds(gen.settings)))]
    /\ UNCHANGED <<ops, command, hostArg, pc, idx, cmds, cached, paths, calls, err,
                   printed, archive, today, home, localfs, remote, container,
                   computed>>

NewGen(s) == [settings |-> s, pos |-> 0, out |-> <<>>, done |-> FALSE]

NoGen == NewGen(PgContainerSettings("", "", "", 0))

\* the settings _restore_cmds is drained for: the registered ones, the
\* dataclass defaults and near misses of the special database name
GenSettings ==
    {PgContainerSettings(n, u, d, 49158) :
        n \in {"my-db", "partisipa_db"},
        u \in {"postgres", "partisipa", "partisipa_metabase"},
        d \in {"postgres", "partisipa_db", "partisipa_metabase_db",
               "dird_db", "partisipa"}}

(***************************************************************************)
(* Initial states                                                          *)
(***************************************************************************)
Invocations ==
    {<<"list-hosts", "">>}
    \cup ({"backup-db", "list-backups", "build-container"} \X HostArgs)

Homes == {<<"root">>, <<"home", "backup">>}

DestinationOf(n, hm) == ComputePaths(hosts[n], hm, 0, "").destination
LocalBackup == ComputePaths(hosts["dird"], <<>>, 0, "").local_backup

\* a disk with nothing on it but /tmp and the home directory
FreshFs(hm) == [q \in {<<"tmp">>} \cup Prefixes(hm) |-> <<>>]

\* a disk after earlier backups and an earlier restore: every destination
\* holds one increment and local_backup holds a restored snapshot
OldDump(n) ==
    Snap(hosts[n].database,
         Loc(hosts[n].host, <<"tmp", "pg_dump_out", "2024-12-30_z">>))

SeededFs(hm) ==
    LET dests == {DestinationOf(n, hm) : n \in DOMAIN hosts}
        dirs == UNION {Prefixes(d) : d \in dests} \cup Prefixes(LocalBackup) IN
    [q \in dirs |->
        IF q \in dests
        THEN <<OldDump(CHOOSE n \in DOMAIN hosts : DestinationOf(n, hm) = q)>>
        ELSE IF q = LocalBackup THEN <<OldDump("dird")>> ELSE <<>>]

ContainerNames == {containersettings[n].container_name :
                      n \in DOMAIN containersettings}

InitRuns(launched, homes, seeds) ==
    /\ \E inv \in [launched -> Invocations] :
          /\ command = [r \in Runs |-> IF r \in launched THEN inv[r][1] ELSE ""]
          /\ hostArg = [r \in Runs |-> IF r \in launched THEN inv[r][2] ELSE ""]
    /\ pc = [r \in Runs |-> IF r \in launched THEN "start" ELSE "off"]
    /\ idx = [r \in Runs |-> 1]
    /\ cmds = [r \in Runs |-> <<>>]
    /\ cached = [r \in Runs |-> FALSE]
    /\ paths = [r \in Runs |-> NoPaths]
    /\ calls = [r \in Runs |-> <<>>]
    /\ err = [r \in Runs |-> ""]
    /\ printed = [r \in Runs |-> <<>>]
    /\ archive = [r \in Runs |-> <<>>]
    /\ ops = [r \in Runs |-> <<>>]
    /\ today = 0
    /\ home \in homes
    /\ \E seeded \in seeds :
          /\ localfs = IF seeded THEN SeededFs(home) ELSE FreshFs(home)
          /\ container = [n \in ContainerNames |->
                IF seeded THEN [status |-> "created", source |-> <<>>]
                          ELSE NoContainer]
    /\ remote = {}
    /\ computed = <<>>

\* one CLI invocation
Init == InitRuns({1}, Homes, BOOLEAN) /\ gen = NoGen

\* two CLI invocations at once, for different logical hosts
InitConcurrent ==
    /\ InitRuns(Runs, {<<"root">>}, {TRUE})
    /\ \A r, s \in Runs : r # s => hostArg[r] # hostArg[s]
    /\ gen = NoGen

\* no CLI invocation: Paths tuples computed one after the other
InitPaths == InitRuns({}, Homes, BOOLEAN) /\ gen = NoGen

\* no CLI invocation: a fresh _restore_cmds() generator
InitRestoreCmds ==
    /\ InitRuns({}, {<<"root">>}, BOOLEAN)
    /\ \E s \in GenSettings : gen = NewGen(s)

Step(r) ==
    \/ ListHosts(r)
    \/ BackupDbLookup(r)
    \/ BackupDbCommands(r)
    \/ RunRemote(r)
    \/ RdiffBackup(r)
    \/ ListBackups(r)
    \/ BuildContainerLookup(r)
    \/ RestoreAsOfNow(r)
    \/ GetContainer(r)
    \/ ContainerStart(r)
    \/ TarAdd(r)
    \/ ExecMkdir(r)
    \/ PutArchive(r)
    \/ Sleep(r)
    \/ RestoreExec(r)

Next == (\E r \in Runs : Step(r)) \/ NextDay

\* a process that keeps its Config instances and goes on to a second command
\* on the same host (the module used from one Python session)
Again(r) ==
    /\ pc[r] = "done" /\ command[r] # "list-hosts"
    /\ ops[r] = <<>>
    /\ ops' = [ops EXCEPT ![r] = Append(@, command[r])]
    /\ \E c \in {"backup-db", "list-backups", "build-container"} :
          command' = [command EXCEPT ![r] = c]
    /\ pc' = [pc EXCEPT ![r] = "start"]
    /\ UNCHANGED <<hostArg, idx, cmds, cached, paths, calls, err, printed,
                   archive, today, home, localfs, remote, container,
                   computed, gen>>

NextSession == Next \/ (\E r \in Runs : Again(r))

Spec == Init /\ [][Next]_vars

\* the two runs' steps in any interleaving, within one day
NextConcurrent == \E r \in Runs : Step(r)

SpecConcurrent == InitConcurrent /\ [][NextConcurrent]_vars

\* one process, on a host with a container profile or on one without
InitSession ==
    /\ InitRuns({1}, {<<"root">>}, {TRUE})
    /\ \A r \in Runs : hostArg[r] \in {"", "partisipa", "dird"}
    /\ gen = NoGen

SpecSession == InitSession /\ [][NextSession]_vars

NextPaths == PathsComputation \/ NextDay

SpecPaths == InitPaths /\ [][NextPaths]_vars

SpecRestoreCmds == InitRestoreCmds /\ [][GenNext]_vars

(***************************************************************************)
(* Properties                                                              *)
(***************************************************************************)
IsPrefixOf(s, t) == Len(s) <= Len(t) /\ SubSeq(t, 1, Len(s)) = s

IsExternal(c) == c.svc \in {"ssh", "rdiff", "docker"}
ExternalCalls(r) == SelectSeq(calls[r], IsExternal)
KindOf(c) == IF c.svc = "ssh" THEN c.cmd.prog ELSE c.op

BackupOrder == <<"mkdir -p", "chown", "su pg_dump", "backup">>

\* C1: a backup-db run's calls to the remote executor and to rdiff-backup
\* are, in this order and with nothing else between them, mkdir -p of the
\* temp parent directory, chown of it to the target user, pg_dump as the
\* target user, the rdiff-backup transfer; a call is issued only once the
\* one before it has returned, and a run that ends without exception has
\* issued all four.
C1_BackupCallOrder ==
    \A r \in Runs : command[r] = "backup-db" =>
        LET ext == ExternalCalls(r)
            n == Len(ext) IN
        /\ IsPrefixOf([i \in 1..n |-> KindOf(ext[i])], BackupOrder)
        /\ \A i \in 1..(n - 1) : ext[i].ok
        /\ pc[r] = "done" => n = 4
        /\ n >= 1 => ext[1].dst = Loc(Cfg(r).host, Parent(paths[r].temp))
        /\ n >= 2 => /\ ext[2].dst = ext[1].dst
                     /\ ext[2].cmd.obj = Cfg(r).user
        /\ n >= 3 => /\ ext[3].cmd.user = Cfg(r).user
                     /\ ext[3].cmd.db = Cfg(r).database
        /\ n >= 4 => ext[4].dst = Loc(Local, paths[r].destination)

C1_Witness ==
    \E r \in Runs :
        /\ command[r] = "backup-db" /\ pc[r] = "done"
        /\ Len(ExternalCalls(r)) = 4
        /\ ExternalCalls(r)[4].ok

\* C2: in a backup-db run a failed remote command is the last call of the
\* run (nothing is invoked after it, and the run has ended with the
\* exception), and no command is executed twice.
C2_FailFast ==
    \A r \in Runs : command[r] = "backup-db" =>
        /\ \A i \in DOMAIN calls[r] :
              (calls[r][i].svc = "ssh" /\ ~calls[r][i].ok)
                  => (i = Len(calls[r]) /\ pc[r] = "failed")
        /\ \A i, j \in DOMAIN calls[r] :
              (i # j /\ IsExternal(calls[r][i]) /\ IsExternal(calls[r][j]))
                  => KindOf(calls[r][i]) # KindOf(calls[r][j])

C2_Witness ==
    \E r \in Runs :
        /\ command[r] = "backup-db" /\ pc[r] = "failed"
        /\ Len(calls[r]) = 1
        /\ calls[r][1].cmd.prog = "mkdir -p" /\ ~calls[r][1].ok

IsRestoreCmd(c) ==
    c.svc = "docker" /\ c.op = "exec_run" /\ c.cmd.prog \in {"psql", "pg_restore"}

\* C3: in the container restore sequence a command that exits non-zero is
\* the last call of the run, and its output is what the run printed last.
C3_RestoreStopsOnFailure ==
    \A r \in Runs : command[r] = "build-container" =>
        \A i \in DOMAIN calls[r] :
            (IsRestoreCmd(calls[r][i]) /\ ~calls[r][i].ok) =>
                /\ i = Len(calls[r])
                /\ printed[r] # <<>>
                /\ printed[r][Len(printed[r])] = Said("output", calls[r][i].cmd)

C3_Witness ==
    \E r \in Runs : \E i \in DOMAIN calls[r] :
        /\ IsRestoreCmd(calls[r][i]) /\ ~calls[r][i].ok
        /\ calls[r][i].cmd.stmt = "CREATE DATABASE"
        /\ pc[r] = "done"

Changed(q) ==
    \/ (q \in DOMAIN localfs) # (q \in DOMAIN localfs')
    \/ q \in DOMAIN localfs /\ q \in DOMAIN localfs' /\ localfs'[q] # localfs[q]

C5_TempNeverShared ==
    \A i, j \in DOMAIN computed :
        i # j => computed[i].paths.temp # computed[j].paths.temp

\* C5, amended: two Paths computations share a temp path exactly when they
\* are made on the same date and draw the same random token.
C5_TempSharedIffSameDateAndToken ==
    \A i, j \in DOMAIN computed :
        (computed[i].paths.temp = computed[j].paths.temp)
            <=> (computed[i].day = computed[j].day
                 /\ computed[i].rand = computed[j].rand)

C5_Witness ==
    /\ Len(computed) >= 2
    /\ computed[1].day # computed[2].day
    /\ computed[1].rand = computed[2].rand
    /\ computed[1].paths.temp # computed[2].paths.temp

LookupFails(r) ==
    \/ IsNone(hosts, hostArg[r])
    \/ command[r] = "build-container" /\ IsNone(containersettings, hostArg[r])

\* C6: a backup-db, list-backups or build-container run whose --host is in
\* no host registry entry, or (build-container) in no container registry
\* entry, ends with an exception having made no call at all -- no remote
\* command, no rdiff-backup call, no rmtree, no container call -- and with
\* the local disk as it was.
C6_LookupFailsBeforeAnyStep ==
    \A r \in Runs :
        (command[r] \in {"backup-db", "list-backups", "build-container"}
         /\ LookupFails(r)) =>
            /\ calls[r] = <<>>
            /\ pc[r] \in {"start", "failed"}
            /\ pc[r] = "failed" => err[r] \in {"KeyError", "AttributeError"}
            /\ localfs \in {FreshFs(home), SeededFs(home)}
            /\ remote = {}
            /\ \A n \in ContainerNames : container[n].status # "running"

C6_Witness ==
    \E r \in Runs :
        /\ command[r] = "build-container" /\ hostArg[r] = "dird"
        /\ pc[r] = "failed" /\ err[r] = "AttributeError"

InFlight(r) == pc[r] \notin {"off", "start", "done", "failed"}

\* the places of a run's PathSet
Tracked(r) ==
    IF cached[r]
    THEN {Loc(Cfg(r).host, paths[r].temp), Loc(Local, paths[r].destination),
          Loc(Local, paths[r].local_backup)}
    ELSE {}

WritesOf(r) == {calls[r][i].dst : i \in DOMAIN calls[r]} \cap Tracked(r)
ReadsOf(r) == {calls[r][i].src : i \in DOMAIN calls[r]} \cap Tracked(r)

\* C7: while two runs for different logical hosts are both under way, no
\* place of its PathSet that one run has deleted, written or read is a place
\* of its PathSet that the other has deleted or written.
C7_DisjointFootprints ==
    \A r, s \in Runs :
        (r # s /\ hostArg[r] # hostArg[s] /\ InFlight(r) /\ InFlight(s)) =>
            (WritesOf(r) \cup ReadsOf(r)) \cap WritesOf(s) = {}

RoleNames == {"metabase_group", "metabase", "partisipa", "iampartisipa"}
RoleStmts == {"DROP ROLE IF EXISTS", "CREATE ROLE"}

\* C8: the sequence _restore_cmds yields starts with DROP DATABASE and
\* CREATE DATABASE of the profile's database and ends with pg_restore into
\* it; role commands occur only between CREATE DATABASE and pg_restore; they
\* occur if and only if the database name is 'partisipa_db', and then both
\* DROP ROLE IF EXISTS and CREATE ROLE are there for each of the four roles.
C8_RoleCmdsIffPartisipa ==
    gen.done =>
        LET out == gen.out
            n == Len(out)
            db == gen.settings.database IN
        /\ n >= 3
        /\ out[1].prog = "psql" /\ out[1].stmt = "DROP DATABASE"
        /\ out[1].obj = db
        /\ out[2].prog = "psql" /\ out[2].stmt = "CREATE DATABASE"
        /\ out[2].obj = db
        /\ out[n].prog = "pg_restore" /\ out[n].db = db
        /\ \A i \in 1..n : out[i].stmt \in RoleStmts => (2 < i /\ i < n)
        /\ (db = "partisipa_db") <=> (\E i \in 1..n : out[i].stmt \in RoleStmts)
        /\ db = "partisipa_db" =>
              \A st \in RoleStmts, role \in RoleNames :
                  \E i \in 1..n : out[i].stmt = st /\ out[i].obj = role

C8_Witness ==
    /\ gen.done /\ gen.settings.database = "partisipa_db"
    /\ Len(gen.out) = 11

IsPgDump(c) == c.svc = "ssh" /\ c.cmd.prog = "su pg_dump"
IsRdiffBackup(c) == c.svc = "rdiff" /\ c.op = "backup"

\* C9: once a process has computed the Paths of its Config it stays cached
\* and never changes, whatever command the process goes on to; every
\* pg_dump of the process writes to, and every rdiff-backup transfer reads
\* from, the temp path of that one Paths tuple.
C9_PathsComputedOnce ==
    [][\A r \in Runs :
          /\ cached[r] => (cached'[r] /\ paths'[r] = paths[r])
          /\ \A i \in DOMAIN calls'[r] :
                /\ IsPgDump(calls'[r][i]) =>
                      calls'[r][i].dst = Loc(Cfg(r).host, paths'[r].temp)
                /\ IsRdiffBackup(calls'[r][i]) =>
                      calls'[r][i].src = Loc(Cfg(r).host, paths'[r].temp)
      ]_vars

C9_Witness ==
    \E r \in Runs :
        /\ ops[r] = <<"list-backups">> /\ command[r] = "backup-db"
        /\ pc[r] = "done" /\ today > 0
        /\ \E i, j \in DOMAIN calls[r] :
              /\ IsPgDump(calls[r][i]) /\ IsRdiffBackup(calls[r][j])
              /\ calls[r][j].src = calls[r][i].dst
              /\ calls[r][i].dst.path = paths[r].temp
              /\ paths[r].temp # ComputePaths(Cfg(r), home, today, "a").temp
              /\ paths[r].temp # ComputePaths(Cfg(r), home, today, "b").temp

\* the stage of build-container the i-th call of cs belongs to
StageAt(cs, i) ==
    LET c == cs[i]
        slept == \E k \in 1..(i - 1) : cs[k].svc = "time" IN
    CASE c.svc \in {"shutil", "os", "rdiff"} -> 1
      [] c.svc = "docker" /\ c.op \in {"get", "create"} ->
            IF slept THEN 8 ELSE 2
      [] c.svc = "docker" /\ c.op = "start" -> 3
      [] c.svc = "tarfile" -> 4
      [] c.svc = "docker" /\ c.op = "exec_run" /\ c.cmd.prog = "mkdir -p" -> 5
      [] c.svc = "docker" /\ c.op = "put_archive" -> 6
      [] c.svc = "time" -> 7
      [] OTHER -> 8

\* C10: the calls of a build-container run come in stages that never go
\* back and are never skipped: restore-as-of-now, resolve-or-create the
\* container, start it, build the archive, mkdir -p /source in the
\* container, upload the archive, sleep, the restore commands; anything
\* after stage one comes after the rdiff-backup restore call, and an archive
\* is built only after a restore that succeeded.
C10_BuildContainerOrder ==
    \A r \in Runs : command[r] = "build-container" =>
        LET cs == calls[r] IN
        /\ \A i, j \in DOMAIN cs : i < j => StageAt(cs, i) <= StageAt(cs, j)
        /\ \A i \in DOMAIN cs : StageAt(cs, i) > 1 =>
              \E k \in 1..(i - 1) : StageAt(cs, k) = StageAt(cs, i) - 1
        /\ \A i \in DOMAIN cs : StageAt(cs, i) > 1 =>
              \E k \in 1..(i - 1) : cs[k].svc = "rdiff" /\ cs[k].op = "restore"
        /\ \A i \in DOMAIN cs : (cs[i].svc = "tarfile" /\ cs[i].ok) =>
              \E k \in 1..(i - 1) :
                  cs[k].svc = "rdiff" /\ cs[k].op = "restore" /\ cs[k].ok
        /\ \A i \in DOMAIN cs : IsRestoreCmd(cs[i]) =>
              /\ \E k \in 1..(i - 1) : cs[k].op = "put_archive"
              /\ \E k \in 1..(i - 1) : cs[k].svc = "time" /\ cs[k].op = "sleep"

C10_Witness ==
    \E r \in Runs :
        /\ command[r] = "build-container" /\ pc[r] = "done"
        /\ calls[r][Len(calls[r])].cmd.prog = "pg_restore"
        /\ calls[r][Len(calls[r])].ok

====
